---- MODULE Spec2Model ----
(***************************************************************************)
(* Model of the NewSubscription component of src/src/lib/axios.ts: the     *)
(* subscription sign-up flow (catalog fetch, subscription lookup per       *)
(* keystroke, dedup guard, Pay Now, the localStorage 'payments' ledger and *)
(* the 'billsUpdated' event), together with the gateway it talks to.       *)
(*                                                                         *)
(* Every handler runs to completion on the single-threaded event loop, so  *)
(* one action is one handler or one promise continuation.  Strings that    *)
(* the code inspects (names) are sequences of characters.  One tick of the *)
(* model's clock stands for one day.                                       *)
(***************************************************************************)
EXTENDS Integers, Sequences, FiniteSets, TLC

(* ------------------------------ bounds --------------------------------- *)
\* Requests the user may start (lookups by keystrokes, POSTs by Pay Now).
MaxReqs == 2
\* Readings of Date.now() are drawn from 1..MaxTime.
MaxTime == 1
MaxCalls == 2

Times == 1..MaxTime

(* ------------------------------ values --------------------------------- *)
WhiteSpace == {" "}

\* Values typed into the name field.
Names == { <<>>, <<" ">>, <<"a">>, <<" ", "a">> }

\* useState<Publication | null>(null): the null selection.
NoPub == [_id |-> "", name |-> "", language |-> "", monthlyPrice |-> 0]

Pub1 == [_id |-> "p1", name |-> "Daily Times", language |-> "en", monthlyPrice |-> 100]
Pub2 == [_id |-> "p2", name |-> "Evening Post", language |-> "hi", monthlyPrice |-> 250]

\* What GET /customer/publications holds, in server order.
Catalog == <<Pub1, Pub2>>

PubIds == {"p1", "p2"}

\* A response body: JSON null, or a JSON array.
NullBody == [isNull |-> TRUE, items |-> <<>>]
Body(items) == [isNull |-> FALSE, items |-> items]

\* A rejected request: no response at all (transport), or a response whose
\* data may carry a message.
TransportError == [response |-> FALSE, hasMessage |-> FALSE, message |-> ""]
Errors ==
  { TransportError,
    [response |-> TRUE, hasMessage |-> FALSE, message |-> ""],
    [response |-> TRUE, hasMessage |-> TRUE, message |-> ""],
    [response |-> TRUE, hasMessage |-> TRUE, message |-> "Already active"] }

NoToast == "(none)"

(* --------------------------- pure functions ---------------------------- *)
RECURSIVE TrimStart(_)
TrimStart(s) ==
  IF s = <<>> THEN s
  ELSE IF Head(s) \in WhiteSpace THEN TrimStart(Tail(s)) ELSE s

RECURSIVE TrimEnd(_)
TrimEnd(s) ==
  IF s = <<>> THEN s
  ELSE IF s[Len(s)] \in WhiteSpace THEN TrimEnd(SubSeq(s, 1, Len(s) - 1)) ELSE s

\* String.prototype.trim
Trim(s) == TrimEnd(TrimStart(s))

\* encodeURIComponent: a space becomes %20, a letter stays.
RECURSIVE EncodeURIComponent(_)
EncodeURIComponent(s) ==
  IF s = <<>> THEN <<>>
  ELSE (IF Head(s) = " " THEN <<"%", "2", "0">> ELSE <<Head(s)>>)
         \o EncodeURIComponent(Tail(s))

\* The gateway's decoding of the query string.
RECURSIVE DecodeURIComponent(_)
DecodeURIComponent(s) ==
  IF s = <<>> THEN <<>>
  ELSE IF Len(s) >= 3 /\ SubSeq(s, 1, 3) = <<"%", "2", "0">>
       THEN <<" ">> \o DecodeURIComponent(SubSeq(s, 4, Len(s)))
       ELSE <<Head(s)>> \o DecodeURIComponent(Tail(s))

\* response.data || []
DataOrEmpty(body) == IF body.isNull THEN <<>> ELSE body.items

\* error.response?.data?.message || fallback
ErrorMessage(e, fallback) ==
  IF e.response /\ e.hasMessage /\ e.message # "" THEN e.message ELSE fallback

\* toast.success(`Subscribed to ${selectedPub.name} successfully!`)
SuccessMessage(pub) == "Subscribed to " \o pub.name \o " successfully!"

\* The record handlePayNow builds after a confirmed POST.
DueDays == 30
NewPayment(pub, now) ==
  [ id               |-> ToString(now),
    subscriptionName |-> pub.name,
    amount           |-> pub.monthlyPrice,
    dueDate          |-> <<"iso", now + DueDays>>,
    status           |-> "paid",
    paidDate         |-> <<"iso", now>> ]

\* JSON.stringify of the ledger: each record becomes its member list.
JSONstringify(list) ==
  [ i \in DOMAIN list |->
      << <<"id", list[i].id>>,
         <<"subscriptionName", list[i].subscriptionName>>,
         <<"amount", list[i].amount>>,
         <<"dueDate", list[i].dueDate>>,
         <<"status", list[i].status>>,
         <<"paidDate", list[i].paidDate>> >> ]

\* JSON.parse of a stored ledger.
JSONparse(text) ==
  [ i \in DOMAIN text |->
      [ id               |-> text[i][1][2],
        subscriptionName |-> text[i][2][2],
        amount           |-> text[i][3][2],
        dueDate          |-> text[i][4][2],
        status           |-> text[i][5][2],
        paidDate         |-> text[i][6][2] ] ]

\* localStorage: a key is absent (getItem gives null) or holds a string.
NoItem == [present |-> FALSE, text |-> <<>>]
Item(text) == [present |-> TRUE, text |-> text]

\* localStorage.getItem("payments") || "[]"
ItemOrEmpty(item) == IF item.present THEN item.text ELSE <<>>

\* Variant of Push: the new record replaces the ledger.
PushReplacing(list, rec) == <<rec>>

\* existingPayments.push(newPayment)
Push(list, rec) == Append(list, rec)

\* Variant of ReadAtDispatch: the event is dispatched before the write.
ReadBeforeWrite(before, after) == before

\* window.dispatchEvent(new Event("billsUpdated")) comes after
\* localStorage.setItem: a listener reads the item as written.
ReadAtDispatch(before, after) == after

\* A ledger left by an earlier session.
OldPayment ==
  [ id |-> "0", subscriptionName |-> "Daily Times", amount |-> 100,
    dueDate |-> <<"iso", 30>>, status |-> "paid", paidDate |-> <<"iso", 0>> ]


(* ------------------------------- state --------------------------------- *)
VARIABLES
  publications,       \* useState<Publication[]>([])
  subscriptions,      \* useState<Subscription[]>([]): the subscribed set
  selectedPub,        \* useState<Publication | null>(null)
  showModal,          \* useState(false)
  customerNameInput,  \* useState("")
  loading,            \* useState(false): the submitting flag
  mounted,            \* the component is the active view
  payments,           \* localStorage item 'payments' (the ledger, serialized)
  ledger0,            \* the 'payments' item found when the session began
  billsUpdated,       \* number of 'billsUpdated' events dispatched
  observed,           \* the 'payments' item a listener of the last event read
  toast,              \* the toast raised by the last step, or NoToast
  net,                \* requests in flight
  nextId,             \* number of requests issued so far, plus one
  latestLookup,       \* id of the most recently issued lookup, 0 if none
  serverSubs,         \* the gateway's subscriptions
  session,            \* what axiosInstance's interceptors read and write
  ev                  \* the event the last step handled

vars ==
  << publications, subscriptions, selectedPub, showModal, customerNameInput,
     loading, mounted, payments, ledger0, billsUpdated, observed, toast, net,
     nextId, latestLookup, serverSubs, session, ev >>

\* The ledger as handlePayNow reads it.
Ledger == JSONparse(ItemOrEmpty(payments))
Ledger0 == JSONparse(ItemOrEmpty(ledger0))

(* ------------------------------ requests ------------------------------- *)
NoBody == [customerName |-> <<>>, publicationId |-> "", amount |-> 0]

\* axios.get(`${API_BASE}/customer/publications`).  At most one is in flight
\* (a view is left only after its catalog has arrived), so it needs no id.
CatalogRequest ==
  [ id |-> 0, kind |-> "catalog", name |-> <<>>, pub |-> NoPub,
    url |-> <<>>, body |-> NoBody, live |-> TRUE ]

\* axios.get(`${API_BASE}/customer/subscriptions?customerName=${encodeURIComponent(name)}`)
LookupRequest(id, name) ==
  [ id |-> id, kind |-> "lookup", name |-> name, pub |-> NoPub,
    url |-> EncodeURIComponent(name), body |-> NoBody, live |-> TRUE ]

\* axios.post(`${API_BASE}/customer/subscriptions/subscribe`, {...}); name and
\* pub are the customerNameInput and selectedPub the handler closed over.
SubscribeRequest(id, name, pub) ==
  [ id |-> id, kind |-> "post", name |-> name, pub |-> pub, url |-> <<>>,
    body |-> [ customerName  |-> Trim(name),
               publicationId |-> pub._id,
               amount        |-> pub.monthlyPrice ],
    live |-> TRUE ]

\* Unmounting: state updates of requests still in flight reach no component.
Orphan(reqs) == { [r EXCEPT !.live = FALSE] : r \in reqs }

(* ------------------------------- gateway ------------------------------- *)
\* GET /customer/subscriptions?customerName=<string>: the subscriptions
\* stored under exactly that name, in publication order.
ServerLookup(url) ==
  LET name == DecodeURIComponent(url)
      ids  == SelectSeq(<<"p1", "p2">>,
                 LAMBDA p : [customerName |-> name, publication |-> p] \in serverSubs)
  IN  [ i \in DOMAIN ids |->
          [publication |-> [_id |-> ids[i]], customerName |-> name] ]

\* POST /customer/subscriptions/subscribe, accepted.
ServerSubscribe(body) ==
  serverSubs \cup
    { [customerName |-> body.customerName, publication |-> body.publicationId] }

(* ------------------------ the axios instance -------------------------- *)
\* error.response?.status === 401
Unauthorized == 401

\* Calls made through axiosInstance that the model follows at a time.
Calls == 1..MaxCalls

\* Responses axios resolves (validateStatus is the default: 2xx).
OkStatuses == {200, 204}

\* Errors the response interceptor's second handler receives: without a
\* response (error.response undefined), or with a response of that status.
NoResponse == [response |-> FALSE, status |-> 0]
GatewayErrors ==
  {NoResponse} \cup {[response |-> TRUE, status |-> n] : n \in {400, Unauthorized, 403, 500}}

\* A slot in which no call has been made.
NoCall == [stage |-> "none", authorization |-> <<>>, response |-> FALSE, status |-> 0]

\* if (token): null and the empty string are falsy.
Truthy(item) == item.present /\ item.text # <<>>

\* config.headers.Authorization = `Bearer ${token}`, or no header.
AuthorizationHeader(token) ==
  IF Truthy(token) THEN <<"Bearer ">> \o token.text ELSE <<>>

\* The session of a signed-in user on the subscription page, no request
\* made through the instance yet.
SessionStart ==
  [ jwt_token |-> Item(<<"t", "1">>),
    user_data |-> Item(<<"u", "1">>),
    href      |-> "/subscribe",
    calls     |-> [c \in Calls |-> NoCall] ]

\* Sessions the instance may be created in: signed in, signed out, with an
\* empty token, with the user record missing.
Sessions ==
  { [SessionStart EXCEPT !.jwt_token = t, !.user_data = u] :
      t \in {NoItem, Item(<<>>), Item(<<"t", "1">>)},
      u \in {NoItem, Item(<<"u", "1">>)} }

(* ------------------------------- events -------------------------------- *)
\* Variant of SuccessSteps: the user is sent to the payments view before
\* the lookup is run again.
SuccessStepsNavigateFirst ==
  << "setItem", "dispatchEvent", "toast.success", "setShowModal",
     "navigate", "fetchSubscriptions", "setLoading" >>

\* The calls of handlePayNow after the POST is confirmed, in program order.
SuccessSteps ==
  << "setItem", "dispatchEvent", "toast.success", "setShowModal",
     "fetchSubscriptions", "navigate", "setLoading" >>

\* What the last step handled: a user action, a response or a rejection
\* (with the error the gateway gave).  For a lookup response: the name it
\* answers and how many responses for that name have now reached the
\* mounted component in a row; for a catalog response: its body; for a
\* confirmed POST: the calls made, in order.
Event(op, err) ==
  [ op |-> op, err |-> err, name |-> <<>>, run |-> 0, data |-> NullBody,
    steps |-> IF op = "postOk" THEN SuccessSteps ELSE <<>> ]

UserEvent(op) == Event(op, TransportError)

(* -------------------------------- Init --------------------------------- *)
\* The component has just been mounted: useEffect has called
\* fetchPublications.
Init ==
  /\ publications = <<>>
  /\ subscriptions = <<>>
  /\ selectedPub = NoPub
  /\ showModal = FALSE
  /\ customerNameInput = <<>>
  /\ loading = FALSE
  /\ mounted = TRUE
  /\ payments \in {NoItem, Item(JSONstringify(<<OldPayment>>))}
  /\ ledger0 = payments
  /\ billsUpdated = 0
  /\ observed = NoItem
  /\ toast = NoToast
  /\ net = {CatalogRequest}
  /\ nextId = 1
  /\ latestLookup = 0
  /\ serverSubs \in
       { {},
         {[customerName |-> <<"a">>, publication |-> "p1"]},
         {[customerName |-> <<"a">>, publication |-> "p1"],
          [customerName |-> <<"a">>, publication |-> "p2"]} }
  /\ session = SessionStart
  /\ ev = UserEvent("mount")


(* --------------------------- the component ----------------------------- *)
RECURSIVE SomePublication(_, _)
\* subs.some(sub => sub.publication._id === pubId): the entries are tested
\* in order until one passes.
SomePublication(subs, pubId) ==
  IF subs = <<>> THEN FALSE
  ELSE IF Head(subs).publication._id = pubId THEN TRUE
  ELSE SomePublication(Tail(subs), pubId)

\* Variant of isSubscribed: only the first entry is tested.
isSubscribedFirstOnly(pubId) ==
  subscriptions # <<>> /\ Head(subscriptions).publication._id = pubId

\* const isSubscribed = (pubId) => subscriptions.some(...)
isSubscribed(pubId) == SomePublication(subscriptions, pubId)

\* {showModal && selectedPub && (...)}: the dialog, with the name field and
\* the Pay Now button, is rendered.
ModalRendered == mounted /\ showModal /\ selectedPub # NoPub

\* Variant of PayNowDisabled: the button ignores the submitting flag.
PayNowDisabledByDedupOnly == isSubscribed(selectedPub._id)

\* Variant of PayNowDisabled: the button ignores the dedup guard.
PayNowDisabledByLoadingOnly == loading

\* disabled={loading || isSubscribed(selectedPub._id)}
PayNowDisabled == loading \/ isSubscribed(selectedPub._id)

\* {loading ? "Processing..." : isSubscribed(selectedPub._id) ? "Already
\* Subscribed" : "Pay Now"}
PayNowLabel ==
  IF loading THEN "Processing..."
  ELSE IF isSubscribed(selectedPub._id) THEN "Already Subscribed"
  ELSE "Pay Now"

\* Variant of LookupSkipped: the guard forgets to trim.
LookupSkippedUntrimmed(name) == name = <<>>

\* if (!name.trim()) in fetchSubscriptions
LookupSkipped(name) == Trim(name) = <<>>

\* fetchSubscriptions(name), called by a component that is mounted or not
\* (live): what it leaves in subscriptions and adds to the requests `base`.
SubscriptionsAfterFetch(name, live) ==
  IF LookupSkipped(name) /\ live THEN <<>> ELSE subscriptions

NetAfterFetch(name, live, base) ==
  IF LookupSkipped(name) THEN base
  ELSE base \cup {[LookupRequest(nextId, name) EXCEPT !.live = live]}

IdsAfterFetch(name) ==
  IF LookupSkipped(name) THEN <<nextId, latestLookup>>
  ELSE <<nextId + 1, nextId>>

\* Requests started by user actions so far: all lookups and POSTs but the
\* lookups that follow confirmed POSTs.
Started == nextId - 1 - billsUpdated

storage == <<payments, ledger0, billsUpdated, observed, session>>
network == <<net, nextId, latestLookup>>

\* View activation: a fresh component, whose useEffect calls
\* fetchPublications.
Mount ==
  /\ ~mounted
  /\ mounted' = TRUE
  /\ publications' = <<>>
  /\ subscriptions' = <<>>
  /\ selectedPub' = NoPub
  /\ showModal' = FALSE
  /\ customerNameInput' = <<>>
  /\ loading' = FALSE
  /\ net' = net \cup {CatalogRequest}
  /\ toast' = NoToast
  /\ ev' = UserEvent("mount")
  /\ UNCHANGED <<storage, nextId, latestLookup, serverSubs>>

\* Last element first.
RECURSIVE Reverse(_)
Reverse(list) ==
  IF list = <<>> THEN <<>> ELSE Append(Reverse(Tail(list)), Head(list))

\* Variant of CatalogOk: the list is shown in the opposite order.
CatalogOkReversed(r) ==
  /\ r \in net /\ r.kind = "catalog"
  /\ \E body \in {Body(Catalog), NullBody} :
       /\ publications' = IF r.live THEN Reverse(DataOrEmpty(body)) ELSE publications
       /\ ev' = [UserEvent("catalogOk") EXCEPT !.data = body]
  /\ net' = net \ {r}
  /\ toast' = NoToast
  /\ UNCHANGED <<subscriptions, selectedPub, showModal, customerNameInput,
                 loading, mounted, storage, nextId, latestLookup, serverSubs>>

\* fetchPublications: the response arrives.
CatalogOk(r) ==
  /\ r \in net /\ r.kind = "catalog"
  /\ \E body \in {Body(Catalog), NullBody} :
       /\ publications' = IF r.live THEN DataOrEmpty(body) ELSE publications
       /\ ev' = [UserEvent("catalogOk") EXCEPT !.data = body]
  /\ net' = net \ {r}
  /\ toast' = NoToast
  /\ UNCHANGED <<subscriptions, selectedPub, showModal, customerNameInput,
                 loading, mounted, storage, nextId, latestLookup, serverSubs>>

\* fetchPublications: the request fails.
CatalogErr(r) ==
  /\ r \in net /\ r.kind = "catalog"
  /\ \E e \in Errors :
       /\ toast' = ErrorMessage(e, "Failed to fetch available publications")
       /\ ev' = Event("catalogErr", e)
  /\ net' = net \ {r}
  /\ UNCHANGED <<publications, subscriptions, selectedPub, showModal,
                 customerNameInput, loading, mounted, storage, nextId,
                 latestLookup, serverSubs>>

\* handleSubscribeClick(pub), from the Subscribe button of a listed publication.
SubscribeClick(i) ==
  /\ mounted
  /\ i \in DOMAIN publications
  /\ selectedPub' = publications[i]
  /\ showModal' = TRUE
  /\ toast' = NoToast
  /\ ev' = UserEvent("subscribeClick")
  /\ UNCHANGED <<publications, subscriptions, customerNameInput, loading,
                 mounted, storage, network, serverSubs>>

\* The dialog's close button: setShowModal(false).
CloseModal ==
  /\ ModalRendered
  /\ showModal' = FALSE
  /\ toast' = NoToast
  /\ ev' = UserEvent("closeModal")
  /\ UNCHANGED <<publications, subscriptions, selectedPub, customerNameInput,
                 loading, mounted, storage, network, serverSubs>>

\* onChange of the name field: setCustomerNameInput(v); fetchSubscriptions(v).
NameChange(v) ==
  /\ ModalRendered
  /\ v # customerNameInput
  /\ LookupSkipped(v) \/ Started < MaxReqs
  /\ customerNameInput' = v
  /\ subscriptions' = SubscriptionsAfterFetch(v, TRUE)
  /\ net' = NetAfterFetch(v, TRUE, net)
  /\ nextId' = IdsAfterFetch(v)[1]
  /\ latestLookup' = IdsAfterFetch(v)[2]
  /\ toast' = NoToast
  /\ ev' = UserEvent("nameChange")
  /\ UNCHANGED <<publications, selectedPub, showModal, loading, mounted,
                 storage, serverSubs>>

\* The event of a lookup response.
LookupEvent(r) ==
  [ UserEvent("lookupOk") EXCEPT
      !.name = r.name,
      !.run  = IF ~r.live THEN 0
               ELSE IF ev.op = "lookupOk" /\ ev.run >= 1 /\ ev.name = r.name
               THEN 2 ELSE 1 ]

\* Variant of LookupOk: a response is applied only if it answers the most
\* recently issued lookup.
LookupOkLatestOnly(r) ==
  /\ r \in net /\ r.kind = "lookup"
  /\ subscriptions' = IF r.live /\ r.id = latestLookup
                      THEN ServerLookup(r.url) ELSE subscriptions
  /\ ev' = LookupEvent(r)
  /\ net' = net \ {r}
  /\ toast' = NoToast
  /\ UNCHANGED <<publications, selectedPub, showModal, customerNameInput,
                 loading, mounted, storage, nextId, latestLookup, serverSubs>>

\* Variant of LookupOk: the response is added to the subscribed set.
LookupOkAccumulating(r) ==
  /\ r \in net /\ r.kind = "lookup"
  /\ \E body \in {Body(ServerLookup(r.url))}
                   \cup (IF ServerLookup(r.url) = <<>> THEN {NullBody} ELSE {}) :
       /\ subscriptions' = IF r.live THEN subscriptions \o DataOrEmpty(body)
                           ELSE subscriptions
       /\ ev' = LookupEvent(r)
  /\ net' = net \ {r}
  /\ toast' = NoToast
  /\ UNCHANGED <<publications, selectedPub, showModal, customerNameInput,
                 loading, mounted, storage, nextId, latestLookup, serverSubs>>

\* fetchSubscriptions: the response arrives.
LookupOk(r) ==
  /\ r \in net /\ r.kind = "lookup"
  /\ \E body \in {Body(ServerLookup(r.url))}
                   \cup (IF ServerLookup(r.url) = <<>> THEN {NullBody} ELSE {}) :
       /\ subscriptions' = IF r.live THEN DataOrEmpty(body) ELSE subscriptions
       /\ ev' = LookupEvent(r)
  /\ net' = net \ {r}
  /\ toast' = NoToast
  /\ UNCHANGED <<publications, selectedPub, showModal, customerNameInput,
                 loading, mounted, storage, nextId, latestLookup, serverSubs>>

\* Variant of LookupErr: the catch block clears the subscribed set.
LookupErrClearing(r) ==
  /\ r \in net /\ r.kind = "lookup"
  /\ \E e \in Errors :
       /\ toast' = ErrorMessage(e, "Failed to fetch subscriptions")
       /\ ev' = Event("lookupErr", e)
  /\ subscriptions' = IF r.live THEN <<>> ELSE subscriptions
  /\ net' = net \ {r}
  /\ UNCHANGED <<publications, selectedPub, showModal, customerNameInput,
                 loading, mounted, storage, nextId, latestLookup, serverSubs>>

\* fetchSubscriptions: the request fails.
LookupErr(r) ==
  /\ r \in net /\ r.kind = "lookup"
  /\ \E e \in Errors :
       /\ toast' = ErrorMessage(e, "Failed to fetch subscriptions")
       /\ ev' = Event("lookupErr", e)
  /\ net' = net \ {r}
  /\ UNCHANGED <<publications, subscriptions, selectedPub, showModal,
                 customerNameInput, loading, mounted, storage, nextId,
                 latestLookup, serverSubs>>

\* Variant of handlePayNow: the selection is tested before the name.
handlePayNowSelectionFirst ==
  /\ ev' = UserEvent("payNow")
  /\ IF selectedPub = NoPub
     THEN /\ toast' = NoToast
          /\ UNCHANGED <<loading, network>>
     ELSE IF Trim(customerNameInput) = <<>>
     THEN /\ toast' = "Please enter your name"
          /\ UNCHANGED <<loading, network>>
     ELSE /\ loading' = TRUE
          /\ net' = net \cup {SubscribeRequest(nextId, customerNameInput, selectedPub)}
          /\ nextId' = nextId + 1
          /\ toast' = NoToast
          /\ UNCHANGED latestLookup
  /\ UNCHANGED <<publications, subscriptions, selectedPub, showModal,
                 customerNameInput, mounted, storage, serverSubs>>

\* handlePayNow up to its await: the two guards, setLoading(true), the POST.
handlePayNow ==
  /\ ev' = UserEvent("payNow")
  /\ IF Trim(customerNameInput) = <<>>
     THEN /\ toast' = "Please enter your name"
          /\ UNCHANGED <<loading, network>>
     ELSE IF selectedPub = NoPub
     THEN /\ toast' = NoToast
          /\ UNCHANGED <<loading, network>>
     ELSE /\ loading' = TRUE
          /\ net' = net \cup {SubscribeRequest(nextId, customerNameInput, selectedPub)}
          /\ nextId' = nextId + 1
          /\ toast' = NoToast
          /\ UNCHANGED latestLookup
  /\ UNCHANGED <<publications, subscriptions, selectedPub, showModal,
                 customerNameInput, mounted, storage, serverSubs>>

\* A click on the Pay Now button.
PayNowClick ==
  /\ ModalRendered
  /\ ~PayNowDisabled
  /\ Started < MaxReqs
  /\ handlePayNow

\* Variant of PostOk: the record is built from the publication selected when
\* the response arrives.
PostOkCurrentSelection(r) ==
  /\ r \in net /\ r.kind = "post"
  /\ serverSubs' = ServerSubscribe(r.body)
  /\ \E now \in Times :
       LET existingPayments == JSONparse(ItemOrEmpty(payments))
       IN  payments' = Item(JSONstringify(Push(existingPayments, NewPayment(selectedPub, now))))
  /\ billsUpdated' = billsUpdated + 1
  /\ observed' = ReadAtDispatch(payments, payments')
  /\ toast' = SuccessMessage(r.pub)
  /\ showModal' = IF r.live THEN FALSE ELSE showModal
  /\ subscriptions' = SubscriptionsAfterFetch(r.name, r.live)
  /\ net' = Orphan(NetAfterFetch(r.name, r.live, net \ {r}))
  /\ nextId' = IdsAfterFetch(r.name)[1]
  /\ latestLookup' = IdsAfterFetch(r.name)[2]
  /\ mounted' = FALSE
  /\ loading' = IF r.live THEN FALSE ELSE loading
  /\ ev' = UserEvent("postOk")
  /\ UNCHANGED <<publications, selectedPub, customerNameInput, ledger0, session>>

\* handlePayNow after its await, the POST confirmed: the record, the ledger
\* write, the event, the toast, setShowModal(false), fetchSubscriptions,
\* navigate("/payments"), and setLoading(false) in finally.
PostOk(r) ==
  /\ r \in net /\ r.kind = "post"
  /\ serverSubs' = ServerSubscribe(r.body)
  /\ \E now \in Times :
       LET existingPayments == JSONparse(ItemOrEmpty(payments))
       IN  payments' = Item(JSONstringify(Push(existingPayments, NewPayment(r.pub, now))))
  /\ billsUpdated' = billsUpdated + 1
  /\ observed' = ReadAtDispatch(payments, payments')
  /\ toast' = SuccessMessage(r.pub)
  /\ showModal' = IF r.live THEN FALSE ELSE showModal
  /\ subscriptions' = SubscriptionsAfterFetch(r.name, r.live)
  /\ net' = Orphan(NetAfterFetch(r.name, r.live, net \ {r}))
  /\ nextId' = IdsAfterFetch(r.name)[1]
  /\ latestLookup' = IdsAfterFetch(r.name)[2]
  /\ mounted' = FALSE
  /\ loading' = IF r.live THEN FALSE ELSE loading
  /\ ev' = UserEvent("postOk")
  /\ UNCHANGED <<publications, selectedPub, customerNameInput, ledger0, session>>

\* Variant of PostErr: the dialog is closed on failure too.
PostErrClosingDialog(r) ==
  /\ r \in net /\ r.kind = "post"
  /\ \E e \in Errors :
       /\ toast' = ErrorMessage(e, "Subscription failed")
       /\ ev' = Event("postErr", e)
  /\ loading' = IF r.live THEN FALSE ELSE loading
  /\ showModal' = IF r.live THEN FALSE ELSE showModal
  /\ net' = net \ {r}
  /\ UNCHANGED <<publications, subscriptions, selectedPub, customerNameInput,
                 mounted, storage, nextId, latestLookup, serverSubs>>

\* Variant of PostErr: setLoading(false) is missing from the failure path.
PostErrStillLoading(r) ==
  /\ r \in net /\ r.kind = "post"
  /\ \E e \in Errors :
       /\ toast' = ErrorMessage(e, "Subscription failed")
       /\ ev' = Event("postErr", e)
  /\ net' = net \ {r}
  /\ UNCHANGED <<publications, subscriptions, selectedPub, showModal,
                 customerNameInput, loading, mounted, storage, nextId,
                 latestLookup, serverSubs>>

\* Variant of PostErr: the catch block submits the POST again.
PostErrRetrying(r) ==
  /\ r \in net /\ r.kind = "post"
  /\ \E e \in Errors :
       /\ toast' = ErrorMessage(e, "Subscription failed")
       /\ ev' = Event("postErr", e)
  /\ net' = (net \ {r}) \cup {[r EXCEPT !.id = nextId]}
  /\ nextId' = nextId + 1
  /\ UNCHANGED <<publications, subscriptions, selectedPub, showModal,
                 customerNameInput, loading, mounted, storage, latestLookup,
                 serverSubs>>

\* handlePayNow after its await, the POST rejected: catch, then finally.
PostErr(r) ==
  /\ r \in net /\ r.kind = "post"
  /\ \E e \in Errors :
       /\ toast' = ErrorMessage(e, "Subscription failed")
       /\ ev' = Event("postErr", e)
  /\ loading' = IF r.live THEN FALSE ELSE loading
  /\ net' = net \ {r}
  /\ UNCHANGED <<publications, subscriptions, selectedPub, showModal,
                 customerNameInput, mounted, storage, nextId, latestLookup,
                 serverSubs>>

Next ==
  \/ Mount
  \/ \E r \in net : CatalogOk(r)
  \/ \E r \in net : CatalogErr(r)
  \/ \E i \in 1..Len(Catalog) : SubscribeClick(i)
  \/ CloseModal
  \/ \E v \in Names : NameChange(v)
  \/ \E r \in net : LookupOk(r)
  \/ \E r \in net : LookupErr(r)
  \/ PayNowClick
  \/ \E r \in net : PostOk(r)
  \/ \E r \in net : PostErr(r)

Spec == Init /\ [][Next]_vars


\* handlePayNow called on any state of the mounted component, whatever is
\* rendered: the handler's own contract.
HandlePayNowCall ==
  /\ mounted
  /\ Started < MaxReqs
  /\ handlePayNow

NextHandler == Next \/ HandlePayNowCall

SpecHandler == Init /\ [][NextHandler]_vars

\* The gateway answers every POST in the end.
PostResolves == \E r \in net : PostOk(r) \/ PostErr(r)

FairSpec == Spec /\ WF_vars(PostResolves)

(* ---------------------- axiosInstance in operation ---------------------- *)
component ==
  << publications, subscriptions, selectedPub, showModal, customerNameInput,
     loading, mounted, payments, ledger0, billsUpdated, observed, toast,
     net, nextId, latestLookup, serverSubs, ev >>

\* The module is loaded: the instance exists, no call has been made.
InitGateway ==
  /\ publications = <<>>
  /\ subscriptions = <<>>
  /\ selectedPub = NoPub
  /\ showModal = FALSE
  /\ customerNameInput = <<>>
  /\ loading = FALSE
  /\ mounted = FALSE
  /\ payments = NoItem
  /\ ledger0 = NoItem
  /\ billsUpdated = 0
  /\ observed = NoItem
  /\ toast = NoToast
  /\ net = {}
  /\ nextId = 1
  /\ latestLookup = 0
  /\ serverSubs = {}
  /\ session \in Sessions
  /\ ev = UserEvent("load")

\* A caller makes a call through the instance: the request interceptor reads
\* the token and adds the header.
RequestInterceptor(c) ==
  /\ session.calls[c].stage # "sent"
  /\ session' =
       [session EXCEPT !.calls[c] =
          [NoCall EXCEPT !.stage = "sent",
                         !.authorization = AuthorizationHeader(session.jwt_token)]]
  /\ UNCHANGED component

\* (response) => response
ResponseFulfilled(c) ==
  /\ session.calls[c].stage = "sent"
  /\ \E n \in OkStatuses :
       session' = [session EXCEPT !.calls[c].stage = "fulfilled",
                                  !.calls[c].response = TRUE,
                                  !.calls[c].status = n]
  /\ UNCHANGED component

\* Variant of ResponseRejected: the user record survives a 401.
ResponseRejectedKeepingUser(c) ==
  /\ session.calls[c].stage = "sent"
  /\ \E error \in GatewayErrors :
       LET rejected == [session EXCEPT !.calls[c].stage = "rejected",
                                       !.calls[c].response = error.response,
                                       !.calls[c].status = error.status]
       IN  session' =
             IF error.response /\ error.status = Unauthorized
             THEN [rejected EXCEPT !.jwt_token = NoItem,
                                   !.href = "/login"]
             ELSE rejected
  /\ UNCHANGED component

\* The response interceptor's error handler: on 401 both items are removed
\* and the location is set; the error is rejected in every case.
ResponseRejected(c) ==
  /\ session.calls[c].stage = "sent"
  /\ \E error \in GatewayErrors :
       LET rejected == [session EXCEPT !.calls[c].stage = "rejected",
                                       !.calls[c].response = error.response,
                                       !.calls[c].status = error.status]
       IN  session' =
             IF error.response /\ error.status = Unauthorized
             THEN [rejected EXCEPT !.jwt_token = NoItem,
                                   !.user_data = NoItem,
                                   !.href = "/login"]
             ELSE rejected
  /\ UNCHANGED component

NextGateway ==
  \/ \E c \in Calls : RequestInterceptor(c)
  \/ \E c \in Calls : ResponseFulfilled(c)
  \/ \E c \in Calls : ResponseRejected(c)

SpecGateway == InitGateway /\ [][NextGateway]_vars

(* ------------------------------ properties ----------------------------- *)
\* `new` is `old` with exactly one record appended.
IsAppend(old, new) ==
  /\ Len(new) = Len(old) + 1
  /\ SubSeq(new, 1, Len(old)) = old

\* The message a rejection carries, if it carries one.
HasServerMessage(e) == e.response /\ e.hasMessage /\ e.message # ""

Lookups == {r \in net : r.kind = "lookup"}
Posts == {r \in net : r.kind = "post"}

\* C1: every step either leaves the ledger item unchanged or, when it is the
\* step that handles a confirmed subscribe POST, appends exactly one record
\* at the end of the ledger; no other step touches the ledger.
C1_LedgerAppendOnly ==
  [][ IF ev'.op = "postOk"
      THEN IsAppend(Ledger, Ledger')
      ELSE payments' = payments ]_vars

\* C1 witness: a confirmed POST has appended one record behind the record an
\* earlier session left.
C1_Witness ==
  /\ ev.op = "postOk"
  /\ Ledger0 # <<>>
  /\ IsAppend(Ledger0, Ledger)

\* C2: the step that handles a failed subscribe POST leaves the ledger item
\* unchanged, dispatches no event, leaves showModal as it was, and raises the
\* server's message if there is one, else 'Subscription failed'.
C2_FailedPostChangesNothing ==
  [][ ev'.op = "postErr" =>
        /\ payments' = payments
        /\ billsUpdated' = billsUpdated
        /\ observed' = observed
        /\ showModal' = showModal
        /\ toast' = IF HasServerMessage(ev'.err)
                    THEN ev'.err.message ELSE "Subscription failed" ]_vars

\* C2 witness: a POST was rejected with a message while the dialog was open.
C2_Witness ==
  /\ ev.op = "postErr"
  /\ ModalRendered
  /\ toast = "Already active"
  /\ Ledger = Ledger0

\* C3: the number of 'billsUpdated' events dispatched equals the number of
\* records appended since the session began, and a listener of the last
\* event read the ledger with the appended record already written.
C3_OneEventPerAppend ==
  /\ billsUpdated = Len(Ledger) - Len(Ledger0)
  /\ billsUpdated > 0 => observed = payments

\* C3 witness: one record appended, one event dispatched.
C3_Witness ==
  /\ billsUpdated = 1
  /\ Len(Ledger) = Len(Ledger0) + 1

\* C4: a change of the name field to a value that is empty after trimming
\* empties the subscribed set in that step and issues no request.
C4_BlankNameClearsWithoutRequest ==
  [][ (ev'.op = "nameChange" /\ Trim(customerNameInput') = <<>>) =>
        /\ subscriptions' = <<>>
        /\ net' = net
        /\ nextId' = nextId ]_vars

\* C4 witness: the field was set to a blank, non-empty value after an
\* earlier lookup had been issued.
C4_Witness ==
  /\ ev.op = "nameChange"
  /\ customerNameInput = <<" ">>
  /\ latestLookup > 0
  /\ subscriptions = <<>>

\* C5: the step that handles a failed lookup leaves the subscribed set as it
\* was and raises the server's message if there is one, else 'Failed to
\* fetch subscriptions'.
C5_FailedLookupKeepsSet ==
  [][ ev'.op = "lookupErr" =>
        /\ subscriptions' = subscriptions
        /\ toast' = IF HasServerMessage(ev'.err)
                    THEN ev'.err.message
                    ELSE "Failed to fetch subscriptions" ]_vars

\* C5 witness: a lookup has failed while the set holds what was fetched for
\* another name than the one in the field.
C5_Witness ==
  /\ ev.op = "lookupErr"
  /\ mounted
  /\ subscriptions # <<>>
  /\ subscriptions[1].customerName # customerNameInput
  /\ Lookups = {}

\* C6: a lookup response that reaches a mounted component replaces the
\* subscribed set by what the gateway answered for that request's name,
\* whether or not a later lookup has been issued.
C6_ResponsesAppliedInArrivalOrder ==
  [][ \A r \in net :
        (ev'.op = "lookupOk" /\ r.kind = "lookup" /\ r.live /\ r \notin net') =>
          subscriptions' = ServerLookup(r.url) ]_vars

\* C6 witness: no lookup is in flight, the gateway's data has not changed,
\* and the subscribed set, just written by a response, is not the answer to
\* the lookup issued last (the one for the name in the field).
C6_Witness ==
  /\ ev.op = "lookupOk"
  /\ mounted
  /\ Lookups = {}
  /\ billsUpdated = 0
  /\ Trim(customerNameInput) # <<>>
  /\ subscriptions # ServerLookup(EncodeURIComponent(customerNameInput))

\* C7: isSubscribed(p) holds exactly when some entry of the subscribed set
\* has publication._id = p.
C7_DedupGuard ==
  \A p \in PubIds \cup {NoPub._id} :
    isSubscribed(p) <=>
      \E i \in DOMAIN subscriptions : subscriptions[i].publication._id = p

\* C7 witness: a set of two entries, the second of which decides.
C7_Witness ==
  /\ Len(subscriptions) = 2
  /\ subscriptions[1].publication._id # "p2"
  /\ isSubscribed("p2")

\* C8: while the dialog shows a publication of the subscribed set, the
\* Pay Now button is disabled and does not read 'Pay Now'; and a step that
\* issues a subscribe POST starts in a state where the selected publication
\* is not in the subscribed set.
C8_NoPostWhenSubscribed ==
  /\ []( (ModalRendered /\ isSubscribed(selectedPub._id)) =>
           (PayNowDisabled /\ PayNowLabel # "Pay Now") )
  /\ [][ (\E r \in net' : r.kind = "post" /\ r.id >= nextId) =>
          ~isSubscribed(selectedPub._id) ]_vars

\* C8 witness: the dialog shows a publication of the subscribed set while
\* nothing is being submitted: the dedup guard alone disables the button.
C8_Witness ==
  /\ ModalRendered
  /\ ~loading
  /\ isSubscribed(selectedPub._id)
  /\ PayNowDisabled
  /\ PayNowLabel = "Already Subscribed"

\* C9: handlePayNow called with no publication selected or with a name that
\* is empty after trimming issues no request, does not set loading, leaves
\* the ledger unchanged and raises a toast.  (With no publication selected
\* the name field has never been shown, so the name test, which comes
\* first, is the one that answers.)
C9_LocalRejectionIsReported ==
  [][ (ev'.op = "payNow" /\ (selectedPub = NoPub \/ Trim(customerNameInput) = <<>>)) =>
        /\ net' = net
        /\ nextId' = nextId
        /\ loading' = loading
        /\ payments' = payments
        /\ toast' # NoToast ]_vars

\* C9 witness: handlePayNow was called with no publication selected and
\* raised the validation toast without submitting.
C9_Witness ==
  /\ ev.op = "payNow"
  /\ selectedPub = NoPub
  /\ toast = "Please enter your name"
  /\ ~loading
  /\ Posts = {}

\* C10 as stated: after a failed POST the Pay Now button of the open dialog
\* is enabled.
C10_FailedPostEnablesButton ==
  [][ (ev'.op = "postErr" /\ ModalRendered') => ~PayNowDisabled' ]_vars

\* C10: loading is set exactly while a POST is in flight (idle ->
\* submitting -> idle): issuing a POST sets it, the step that handles the
\* POST's outcome resets it, and after a failed POST the button of the open
\* dialog is disabled only by the dedup guard; if the gateway answers every
\* POST, loading never stays set.
C10_SubmittingIsLeft ==
  /\ [](loading <=> \E r \in Posts : r.live)
  /\ [][ ev'.op \in {"postOk", "postErr"} => ~loading' ]_vars
  /\ [][ (ev'.op = "postErr" /\ ModalRendered') =>
           (PayNowDisabled' <=> isSubscribed(selectedPub._id)') ]_vars
  /\ (loading ~> ~loading)

\* C10 witness: a POST has failed, the dialog is open, nothing is being
\* submitted and the button is enabled for a fresh attempt.
C10_Witness ==
  /\ ev.op = "postErr"
  /\ ModalRendered
  /\ ~loading
  /\ ~PayNowDisabled


\* Requests of a kind that a step has issued: those in flight after it whose
\* id was not yet given out before it (a catalog fetch has no id: one in
\* flight after the step, none before).
Issued(kind) ==
  IF kind = "catalog"
  THEN {r \in net' : r.kind = kind /\ ~\E q \in net : q.kind = kind}
  ELSE {r \in net' : r.kind = kind /\ r.id >= nextId}

Pos(calls, c) ==
  IF \E i \in DOMAIN calls : calls[i] = c
  THEN CHOOSE i \in DOMAIN calls : calls[i] = c
  ELSE 0

\* The calls of `order` are all made, one after the other in that order.
MadeInOrder(calls, order) ==
  /\ \A i \in DOMAIN order : Pos(calls, order[i]) > 0
  /\ \A i, j \in DOMAIN order :
       i < j => Pos(calls, order[i]) < Pos(calls, order[j])

\* The POST a step has answered: in flight before it, not after it.
Answered == {r \in Posts : ~\E q \in net' : q.id = r.id /\ q.kind = "post"}

\* C12: the step that handles a confirmed POST writes the ledger with the
\* record appended, then dispatches the event (whose listener reads the
\* written ledger), then closes the dialog, then runs the lookup again for
\* the name the attempt read (whose trimmed form the POST sent), then
\* navigates; and no other step writes the ledger, dispatches the event or
\* leaves the view, and only the close button closes the dialog otherwise.
C12_SuccessStepsInOrder ==
  [][ /\ ev'.op = "postOk" =>
           /\ MadeInOrder(ev'.steps,
                << "setItem", "dispatchEvent", "setShowModal",
                   "fetchSubscriptions", "navigate" >>)
           /\ IsAppend(Ledger, Ledger')
           /\ billsUpdated' = billsUpdated + 1
           /\ observed' = payments'
           /\ ~showModal'
           /\ ~mounted'
           /\ \E r \in Answered :
                /\ Cardinality(Issued("lookup")) = 1
                /\ \A q \in Issued("lookup") :
                     /\ q.name = r.name
                     /\ Trim(q.name) = r.body.customerName
      /\ ev'.op # "postOk" =>
           /\ payments' = payments
           /\ billsUpdated' = billsUpdated
           /\ mounted => mounted'
           /\ (showModal /\ ~showModal') => ev'.op = "closeModal" ]_vars

\* C12 witness: a POST was confirmed after the user had changed the name
\* field during the attempt: the lookup in flight is for the name the
\* attempt read, not for the field's value.
C12_Witness ==
  /\ ev.op = "postOk"
  /\ ~mounted
  /\ ~showModal
  /\ billsUpdated = 1
  /\ \E q \in Lookups : q.id = latestLookup /\ q.name # customerNameInput


\* C13: when two responses to lookups for the same name reach the mounted
\* component one right after the other (so the gateway's data has not
\* changed in between), the second leaves the subscribed set as the first
\* left it.
C13_LookupIdempotent ==
  [][ (ev'.op = "lookupOk" /\ ev'.run = 2) =>
        /\ serverSubs' = serverSubs
        /\ subscriptions' = subscriptions ]_vars

\* C13 witness: the second of two such responses has arrived, and the set
\* it confirms is not empty.
C13_Witness ==
  /\ ev.op = "lookupOk"
  /\ ev.run = 2
  /\ mounted
  /\ subscriptions # <<>>
  /\ subscriptions[1].customerName = ev.name


Catalogs == {r \in net : r.kind = "catalog"}

\* C14: a view activation (the first one included) issues exactly one
\* catalog fetch and starts from the empty list; a catalog response makes
\* the list the response's array, in its order (the empty list for a null
\* body); a failed catalog fetch raises the server's message or 'Failed to
\* fetch available publications' and leaves the list empty; no other step
\* changes the list.
C14_CatalogLoader ==
  /\ Cardinality(Catalogs) = 1 /\ publications = <<>>
  /\ [](Cardinality(Catalogs) <= 1)
  /\ [][ /\ ev'.op = "mount" =>
              /\ Cardinality(Issued("catalog")) = 1
              /\ publications' = <<>>
         /\ ev'.op = "catalogOk" =>
              publications' = IF ev'.data.isNull THEN <<>> ELSE ev'.data.items
         /\ ev'.op = "catalogErr" =>
              /\ publications' = <<>>
              /\ toast' = IF HasServerMessage(ev'.err)
                          THEN ev'.err.message
                          ELSE "Failed to fetch available publications"
         /\ ev'.op \notin {"mount", "catalogOk"} =>
              publications' = publications ]_vars

\* C14 witness: the catalog fetch of a second activation has failed and the
\* list is empty.
C14_Witness ==
  /\ ev.op = "catalogErr"
  /\ mounted
  /\ billsUpdated > 0
  /\ publications = <<>>
  /\ toast = "Failed to fetch available publications"


\* The (customer, publication) pair a subscribe POST asks the server to add.
PairOf(r) ==
  [customerName |-> r.body.customerName, publication |-> r.body.publicationId]

\* C15: no step issues a subscribe POST for a (trimmed name, publication)
\* pair the server already holds, whatever name was typed and whenever the
\* lookup response arrives.
C15_NoPostForHeldPair ==
  [][ \A r \in Issued("post") : PairOf(r) \notin serverSubs ]_vars


C17_RecordOfPostedPublication ==
  [][ ev'.op = "postOk" =>
        /\ Ledger' # <<>>
        /\ \E r \in Answered :
             LET record == Ledger'[Len(Ledger')]
             IN  /\ record.status = "paid"
                 /\ record.amount = r.body.amount
                 /\ \E i \in DOMAIN publications :
                      /\ publications[i]._id = r.body.publicationId
                      /\ record.subscriptionName = publications[i].name
                      /\ record.amount = publications[i].monthlyPrice ]_vars

\* C17 witness: a POST has been confirmed after the user selected another
\* publication and edited the name; the record is not of the selection.
C17_Witness ==
  /\ ev.op = "postOk"
  /\ Ledger # <<>>
  /\ selectedPub # NoPub
  /\ Ledger[Len(Ledger)].subscriptionName # selectedPub.name
  /\ Ledger[Len(Ledger)].status = "paid"
  /\ \E q \in Lookups : q.id = latestLookup /\ q.name # customerNameInput


\* C18: whenever the view shows a name field that is empty after trimming
\* and no lookup is in flight, the subscribed set is empty.
C18_BlankNameMeansEmptySet ==
  (mounted /\ Trim(customerNameInput) = <<>> /\ Lookups = {})
    => subscriptions = <<>>


\* The calls a step settles: sent before it, fulfilled or rejected after it.
Settled == {c \in Calls : session.calls[c].stage = "sent"
                          /\ session'.calls[c].stage # "sent"}

\* C19: a call answered with status 401 ends rejected, with both 'jwt_token'
\* and 'user_data' removed and the location set to the login page; a call
\* that fails in any other way ends rejected with the stored credentials
\* and the location as they were; a fulfilled call changes neither.
C19_UnauthorizedClearsSession ==
  [][ \A c \in Settled :
        LET call == session'.calls[c]
        IN  IF call.response /\ call.status = 401
            THEN /\ call.stage = "rejected"
                 /\ session'.jwt_token = NoItem
                 /\ session'.user_data = NoItem
                 /\ session'.href = "/login"
            ELSE /\ call.stage = "rejected" <=> call.status \notin OkStatuses
                 /\ session'.jwt_token = session.jwt_token
                 /\ session'.user_data = session.user_data
                 /\ session'.href = session.href ]_vars

\* C19 witness: a call sent with the bearer token was rejected with 401, the
\* credentials are gone and the location is the login page; another call was
\* rejected with 500.
C19_Witness ==
  /\ session.jwt_token = NoItem
  /\ session.user_data = NoItem
  /\ session.href = "/login"
  /\ \E c, d \in Calls :
       /\ session.calls[c].stage = "rejected"
       /\ session.calls[c].status = 401
       /\ session.calls[c].authorization = <<"Bearer ", "t", "1">>
       /\ session.calls[d].stage = "rejected"
       /\ session.calls[d].status = 500

====
